---------------------------- MODULE Spec2Model ----------------------------
(***************************************************************************)
(* A model of WSClientImpl (src/ripple/test/impl/WSClient.cpp): the        *)
(* WebSocket test client of rippled.  One background thread runs the      *)
(* read completion handler on_read_msg, which parses each frame and       *)
(* pushes it to the front of the list msgs_; caller threads take          *)
(* messages out with getMsg (from the back), findMsg (first match of a     *)
(* front-to-back scan) and invoke (write a command, then findMsg for a     *)
(* message of type "response", then normalise it).  msgs_ is guarded by    *)
(* the mutex m_ and the condition variable cv_: every critical section    *)
(* is one action here.                                                     *)
(***************************************************************************)
EXTENDS Integers, Sequences, FiniteSets, TLC

\* ------------------------------------------------------------- bounds
MaxFrames == 3      \* frames read over the life of the connection
MaxCalls  == 3      \* public calls issued over the life of the client
MaxInbox  == 2      \* messages buffered at once in the unending run (LiveSpec)

\* The caller threads: the test's own thread and one more.
Callers == {1, 2}

\* ------------------------------------------------------ JSON documents
\* A Json::Value object is a function from member names to values; the
\* null value (Json::Value()) is the function with no members.
Null == [f \in {} |-> ""]

isMember(jv, k) == k \in DOMAIN jv

removeMember(jv, k) == [f \in DOMAIN jv \ {k} |-> jv[f]]

setMember(jv, k, v) == [f \in DOMAIN jv \cup {k} |-> IF f = k THEN v ELSE jv[f]]

\* jv[k] == s for a string s: a missing member reads as null, which equals
\* no string.
memberIs(jv, k, s) == isMember(jv, k) /\ jv[k] = s

\* The documents the peer sends in the connection model.
RespSuccess == [type |-> "response", status |-> "success", result |-> [foo |-> "1"]]
ResponseDocs == {RespSuccess}
NotifyDocs == {[type |-> "ledgerClosed"]}

\* The responses invoke's normalisation is checked on: every combination
\* of a status (none, success, error, another), a nested result (none,
\* empty, with and without a status of its own), an error member and an
\* id member.  An option is <<>> (member absent) or <<value>>.
WithOpt(jv, k, opt) == IF opt = <<>> THEN jv ELSE setMember(jv, k, opt[1])

NormDocs ==
    {WithOpt(WithOpt(WithOpt(WithOpt([type |-> "response"],
        "status", s), "result", r), "error", e), "id", i) :
        s \in {<<>>, <<"success">>, <<"error">>, <<"closed">>},
        r \in {<<>>, <<Null>>, <<[foo |-> "1"]>>, <<[foo |-> "1", status |-> "old"]>>},
        e \in {<<>>, <<"badCommand">>},
        i \in {<<>>, <<"7">>}}

\* A frame read from the peer: its bytes are the text of a document, or are not
\* valid JSON.  re is the number of the call whose command the frame
\* answers (0: unsolicited); it is bookkeeping, not data the client sees.
Frame(ok, doc, re) == [ok |-> ok, doc |-> doc, re |-> re]

\* Json::Reader::parse of a frame's bytes; the result of a failed parse is
\* the default-constructed value.
parse(frame) == IF frame.ok THEN frame.doc ELSE Null

\* invoke's outbound document: params, then the command member.
BuildCommand(cmd, params) == setMember(params, "command", cmd)

\* --------------------------------------------------------------- state
VARIABLES
    msgs_,      \* std::list<std::shared_ptr<msg>>: front is index 1
    rd,         \* "reading": an async_read is outstanding; "stopped"
    pc,         \* caller -> idle | ready | waiting | done | thrown (and the steps of SpecLock)
    op,         \* caller -> the call it is in: kind, pred, call number
    ret,        \* caller -> what its last call returned
    sent,       \* commands written by invoke, in order: call, jv
    pending,    \* call numbers whose command the peer has not answered
    nread,      \* frames read so far: the next msg is number nread + 1
    ncalls,     \* calls issued so far
    log,        \* finished calls: call, kind, id and re of the message (0: timed out)
    rb_,        \* beast::streambuf: the frames whose bytes it holds, oldest first
    reads,      \* async_read operations issued and not yet completed
    hnd,        \* the completion handler the background thread is running
    m_,         \* std::mutex m_: its owner, a caller or "reader"; 0 when free
    ctor,       \* how far the constructor has come
    dtor,       \* how far the destructor has come
    thread_,    \* std::thread thread_: none | running | exited | joined
    work_,      \* boost::optional<io_service::work>: TRUE while engaged
    stream_     \* the socket: none | open | closing (close frame sent) | closed

\* The members and positions that only construction, teardown and the
\* steps inside a handler or a critical section change.
lifeVars == <<hnd, m_, ctor, dtor, thread_, work_, stream_>>

vars == <<msgs_, rd, pc, op, ret, sent, pending, nread, ncalls, log,
          rb_, reads, lifeVars>>

\* struct msg: jv is the document; id numbers the object by arrival and re
\* is copied from the frame (both bookkeeping).
Msg(id, jv, re) == [id |-> id, jv |-> jv, re |-> re]

NoOp == [kind |-> "none", pred |-> "none", call |-> 0]
NoRet == [some |-> FALSE, jv |-> Null, id |-> 0]

\* --------------------------------------------------- the list msgs_
\* Mutant: the message is appended at the back.
push_back(q, m) == Append(q, m)

push_front(q, m) == <<m>> \o q

\* Mutant: the back is read and the front is popped.
pop_front(q) == SubSeq(q, 2, Len(q))

\* Mutant: the back is read and left in the list.
pop_back_Keep(q) == q

pop_back(q) == SubSeq(q, 1, Len(q) - 1)

\* Mutant: erase(it, end) instead of erase(it).
erase_ToEnd(q, i) == SubSeq(q, 1, i - 1)

erase(q, i) == SubSeq(q, 1, i - 1) \o SubSeq(q, i + 1, Len(q))

\* The predicates callers hand to findMsg; invoke's own is "isResponse".
Preds == {"isLedgerClosed"}

Pred(p, jv) ==
    CASE p = "isResponse" -> memberIs(jv, "type", "response")
      [] p = "isLedgerClosed" -> memberIs(jv, "type", "ledgerClosed")
      [] OTHER -> FALSE

\* Mutant: the loop returns at the first message without asking pred.
Scan_AnyFirst(q, p, i) == IF i > Len(q) THEN 0 ELSE i

\* Mutant: the scan looks at the newest message only.
Scan_NewestOnly(q, p, i) ==
    IF Len(q) >= 1 /\ Pred(p, q[1].jv) THEN 1 ELSE 0

\* Mutant: the loop runs from the back of msgs_ towards the front.
Scan_FromBack(q, p, i) ==
    LET hits == {j \in i .. Len(q) : Pred(p, q[j].jv)} IN
    IF hits = {} THEN 0 ELSE CHOOSE j \in hits : \A k \in hits : k <= j

\* findMsg's loop from msgs_.begin(): the position of the first message
\* pred accepts, 0 when it reaches msgs_.end().
RECURSIVE Scan(_, _, _)
Scan(q, p, i) ==
    IF i > Len(q) THEN 0
    ELSE IF Pred(p, q[i].jv) THEN i
    ELSE Scan(q, p, i + 1)

\* Mutant: getMsg reads msgs_.front() (and still pops the back).
ClaimPos_Front(o, q) ==
    IF o.kind = "getMsg" THEN (IF q = <<>> THEN 0 ELSE 1) ELSE Scan(q, o.pred, 1)

\* The position the wait predicate of call o takes its message from, 0
\* when the predicate is false: getMsg's is msgs_.back() of a non-empty
\* list, findMsg's is the scan's first match.
ClaimPos(o, q) ==
    IF o.kind = "getMsg" THEN Len(q) ELSE Scan(q, o.pred, 1)

\* ------------------------------------------------------------ invoke
\* Mutant: the response is wrapped before its type member is removed.
Normalize_TypeInResult(found) ==
    IF isMember(found, "status") /\ found["status"] = "error"
    THEN LET r1 == setMember(Null, "result", found)
             r2 == IF isMember(found, "error")
                   THEN setMember(r1, "error", found["error"]) ELSE r1
         IN  setMember(r2, "status", "error")
    ELSE IF isMember(found, "status") /\ isMember(found, "result")
    THEN removeMember(setMember(found, "result",
             setMember(found["result"], "status", found["status"])), "type")
    ELSE removeMember(found, "type")

\* Mutant: the status is moved into the nested result, not copied.
Normalize_DropStatus(found) ==
    LET jv == removeMember(found, "type") IN
    IF isMember(jv, "status") /\ jv["status"] = "error"
    THEN LET r1 == setMember(Null, "result", jv)
             r2 == IF isMember(jv, "error")
                   THEN setMember(r1, "error", jv["error"]) ELSE r1
         IN  setMember(r2, "status", "error")
    ELSE IF isMember(jv, "status") /\ isMember(jv, "result")
    THEN removeMember(setMember(jv, "result",
             setMember(jv["result"], "status", jv["status"])), "status")
    ELSE removeMember(jv, "status")

\* "Normalize JSON output": the lines after findMsg returned a document.
Normalize(found) ==
    LET jv == removeMember(found, "type") IN
    IF isMember(jv, "status") /\ jv["status"] = "error"
    THEN LET r1 == setMember(Null, "result", jv)
             r2 == IF isMember(jv, "error")
                   THEN setMember(r1, "error", jv["error"]) ELSE r1
         IN  setMember(r2, "status", "error")
    ELSE IF isMember(jv, "status") /\ isMember(jv, "result")
    THEN setMember(jv, "result", setMember(jv["result"], "status", jv["status"]))
    ELSE jv

\* What a call returns for the message m it took out of msgs_.
Returned(o, m) ==
    [some |-> TRUE,
     jv |-> IF o.kind = "invoke" THEN Normalize(m.jv) ELSE m.jv,
     id |-> m.id]

\* Mutant: invoke hands the absence of a message on to its caller.
TimedOut_Nothing(o) == [some |-> FALSE, jv |-> Null, id |-> 0]

\* What a call returns when wait_for returned false: boost::none from
\* getMsg and findMsg, the default document from invoke.
TimedOut(o) ==
    [some |-> o.kind = "invoke", jv |-> Null, id |-> 0]

\* The client once the constructor has returned and until the destructor
\* is entered: the background thread is inside ios_.run(), kept there by
\* work_, the socket is open, no handler is running and m_ is free.
Established ==
    /\ hnd = "idle"
    /\ m_ = 0
    /\ ctor = "done"
    /\ dtor = "none"
    /\ thread_ = "running"
    /\ work_ = TRUE
    /\ stream_ = "open"

\* ---------------------------------------------------------------- Init
Init ==
    /\ msgs_ = <<>>
    /\ rd = "reading"
    /\ pc = [t \in Callers |-> "idle"]
    /\ op = [t \in Callers |-> NoOp]
    /\ ret = [t \in Callers |-> NoRet]
    /\ sent = <<>>
    /\ pending = {}
    /\ nread = 0
    /\ ncalls = 0
    /\ log = {}
    /\ rb_ = <<>>
    /\ reads = 1
    /\ Established

\* ------------------------------------------------------------- callers
InCall(t) == pc[t] \in {"ready", "locked", "waiting", "expired", "relocked"}

InInvoke(t) == InCall(t) /\ op[t].kind = "invoke"

\* Callers are interchangeable, so a call is issued by the lowest-numbered
\* caller that is not inside one: caller 2 calls only while caller 1 is busy.
CanCall(t) ==
    /\ ~InCall(t)
    /\ \A u \in Callers : u < t => InCall(u)

\* A call is entered: the caller is about to lock m_.
Enter(t, kind, p, c) ==
    /\ op' = [op EXCEPT ![t] = [kind |-> kind, pred |-> p, call |-> c]]
    /\ pc' = [pc EXCEPT ![t] = "ready"]
    /\ ret' = [ret EXCEPT ![t] = NoRet]

CallGetMsg(t) ==
    /\ CanCall(t)
    /\ ncalls < MaxCalls
    /\ ncalls' = ncalls + 1
    /\ Enter(t, "getMsg", "none", ncalls + 1)
    /\ UNCHANGED <<msgs_, rd, sent, pending, nread, log, rb_, reads, lifeVars>>

CallFindMsg(t, p) ==
    /\ CanCall(t)
    /\ ncalls < MaxCalls
    /\ ncalls' = ncalls + 1
    /\ Enter(t, "findMsg", p, ncalls + 1)
    /\ UNCHANGED <<msgs_, rd, sent, pending, nread, log, rb_, reads, lifeVars>>

\* invoke is called: the command is written, then findMsg is entered.
\* Correlated calls are issued one at a time on a client.
CallInvoke(t) ==
    /\ CanCall(t)
    /\ ncalls < MaxCalls
    /\ \A u \in Callers : ~InInvoke(u)
    /\ ncalls' = ncalls + 1
    /\ sent' = Append(sent, [call |-> ncalls + 1, jv |-> BuildCommand("ping", Null)])
    /\ pending' = pending \cup {ncalls + 1}
    /\ Enter(t, "invoke", "isResponse", ncalls + 1)
    /\ UNCHANGED <<msgs_, rd, nread, log, rb_, reads, lifeVars>>

\* invoke is called on a connection that has failed: ws_.write_frame is
\* given no error_code, so when the write fails the exception leaves
\* invoke before findMsg is reached.  Nothing is written.
invoke_throws(t) ==
    /\ CanCall(t)
    /\ ncalls < MaxCalls
    /\ \A u \in Callers : ~InInvoke(u)
    /\ rd = "stopped"
    /\ ncalls' = ncalls + 1
    /\ op' = [op EXCEPT ![t] = [kind |-> "invoke", pred |-> "isResponse", call |-> ncalls + 1]]
    /\ pc' = [pc EXCEPT ![t] = "thrown"]
    /\ ret' = [ret EXCEPT ![t] = NoRet]
    /\ UNCHANGED <<msgs_, rd, sent, pending, nread, log, rb_, reads, lifeVars>>

\* The caller holds m_ and the wait predicate is true: the message is
\* taken out of msgs_ and the call returns it.
Take(t) ==
    LET i == ClaimPos(op[t], msgs_) IN
    /\ i # 0
    /\ ret' = [ret EXCEPT ![t] = Returned(op[t], msgs_[i])]
    /\ msgs_' = IF op[t].kind = "getMsg" THEN pop_back(msgs_) ELSE erase(msgs_, i)
    /\ pc' = [pc EXCEPT ![t] = "done"]

\* cv_.wait_for evaluates the wait predicate with m_ held, on entry and
\* after each wake-up: it takes a message, or blocks again.
CheckStep(t) ==
    /\ pc[t] = "ready"
    /\ IF ClaimPos(op[t], msgs_) # 0
       THEN Take(t)
       ELSE /\ pc' = [pc EXCEPT ![t] = "waiting"]
            /\ UNCHANGED <<msgs_, ret>>
    /\ UNCHANGED <<rd, op, sent, pending, nread, ncalls, rb_, reads, lifeVars>>

\* The timeout expires while the caller is blocked: wait_for locks m_
\* again and returns the wait predicate's value.
TimeoutStep(t) ==
    /\ pc[t] = "waiting"
    /\ IF ClaimPos(op[t], msgs_) # 0
       THEN Take(t)
       ELSE /\ ret' = [ret EXCEPT ![t] = TimedOut(op[t])]
            /\ pc' = [pc EXCEPT ![t] = "done"]
            /\ UNCHANGED msgs_
    /\ UNCHANGED <<rd, op, sent, pending, nread, ncalls, rb_, reads, lifeVars>>

\* The record of a call that finishes in this step.
Finished(t) ==
    IF pc'[t] = "done"
    THEN {[call |-> op[t].call, kind |-> op[t].kind, id |-> ret'[t].id,
           re |-> IF ret'[t].id = 0 THEN 0
                  ELSE msgs_[ClaimPos(op[t], msgs_)].re]}
    ELSE {}

Check(t) == CheckStep(t) /\ log' = log \cup Finished(t)

Timeout(t) == TimeoutStep(t) /\ log' = log \cup Finished(t)

\* A condition variable may wake a waiter that nobody notified.
SpuriousWake(t) ==
    /\ pc[t] = "waiting"
    /\ pc' = [pc EXCEPT ![t] = "ready"]
    /\ UNCHANGED <<msgs_, rd, op, ret, sent, pending, nread, ncalls, log, rb_, reads, lifeVars>>

\* -------------------------------------------------------------- reader
\* The frames the outstanding read can complete with: the peer's answer to
\* a command it has not answered yet, a notification, or bytes that are
\* not valid JSON.
Frames ==
    {Frame(TRUE, d, c) : d \in ResponseDocs, c \in pending}
        \cup {Frame(TRUE, d, 0) : d \in NotifyDocs}
        \cup {Frame(FALSE, Null, 0)}

\* buffer_string(rb_.data()): all the bytes the read buffer holds.
buffer_string(b) == b

\* Json::Reader::parse of the buffer's bytes: the text of exactly one frame
\* parses as that frame does; anything else is not a document.
parse_buffer(s) == IF Len(s) = 1 THEN parse(s[1]) ELSE Null

\* Mutant: nothing is consumed.
consume_Nothing(b, n) == b

\* rb_.consume(n): the first n frames' bytes leave the buffer.
consume(b, n) == SubSeq(b, n + 1, Len(b))

\* cv_.notify_all(): every blocked caller is woken.
notify_all(p) == [t \in Callers |-> IF p[t] = "waiting" THEN "ready" ELSE p[t]]

\* The body of on_read_msg with no error: the frame is parsed, the message
\* (numbered id) pushed to the front of msgs_ with m_ held, the waiters
\* notified and the next read issued.
ReadMsg(frame, id) ==
    LET data == rb_ \o <<frame>> IN
    /\ rd = "reading"
    /\ reads > 0
    /\ msgs_' = push_front(msgs_, Msg(id, parse_buffer(buffer_string(data)), frame.re))
    /\ rb_' = consume(data, Len(data))
    /\ pc' = notify_all(pc)
    /\ reads' = (reads - 1) + 1
    /\ UNCHANGED <<rd, op, ret, sent, ncalls, log, lifeVars>>

on_read_msg(frame) ==
    /\ nread < MaxFrames
    /\ ReadMsg(frame, nread + 1)
    /\ pending' = pending \ {frame.re}
    /\ nread' = nread + 1

\* Mutant: the handler does not test ec before it pushes.
on_read_error_Push ==
    /\ rd = "reading"
    /\ reads > 0
    /\ reads' = reads - 1
    /\ rd' = "stopped"
    /\ msgs_' = push_front(msgs_, Msg(nread + 1, Null, 0))
    /\ nread' = nread + 1
    /\ pc' = notify_all(pc)
    /\ UNCHANGED <<op, ret, sent, pending, ncalls, log, rb_, lifeVars>>

\* on_read_msg with an error: the handler returns and no read is issued.
on_read_error ==
    /\ rd = "reading"
    /\ reads > 0
    /\ reads' = reads - 1
    /\ rd' = "stopped"
    /\ UNCHANGED <<msgs_, pc, op, ret, sent, pending, nread, ncalls, log, rb_, lifeVars>>

\* ---------------------------------------------------------------- Next
Next ==
    \/ \E t \in Callers : CallGetMsg(t)
    \/ \E t \in Callers, p \in Preds : CallFindMsg(t, p)
    \/ \E t \in Callers : CallInvoke(t)
    \/ \E t \in Callers : invoke_throws(t)
    \/ \E t \in Callers : Check(t)
    \/ \E t \in Callers : Timeout(t)
    \/ \E t \in Callers : SpuriousWake(t)
    \/ \E frame \in Frames : on_read_msg(frame)
    \/ on_read_error

Spec == Init /\ [][Next]_vars

\* ------------------------------------------------- the unending run
\* The same client with nothing counted, so that calls and frames can go
\* on for ever: calls are not numbered nor recorded, and a message is
\* numbered with a number that no buffered message and no caller's last
\* result carries.  At most MaxInbox messages are buffered at once.  The
\* connection of this run stays up and delivers well-formed frames, and no
\* waiter wakes unnotified.
InboxIdsNow == {msgs_[i].id : i \in 1 .. Len(msgs_)}

FreshId ==
    CHOOSE k \in 1 .. (MaxInbox + Cardinality(Callers)) :
        k \notin InboxIdsNow \cup {ret[t].id : t \in Callers}

LiveFrames == {Frame(TRUE, d, 0) : d \in ResponseDocs \cup NotifyDocs}

LiveGetMsg(t) ==
    /\ CanCall(t)
    /\ Enter(t, "getMsg", "none", 0)
    /\ UNCHANGED <<msgs_, rd, sent, pending, nread, ncalls, log, rb_, reads, lifeVars>>

LiveFindMsg(t, p) ==
    /\ CanCall(t)
    /\ Enter(t, "findMsg", p, 0)
    /\ UNCHANGED <<msgs_, rd, sent, pending, nread, ncalls, log, rb_, reads, lifeVars>>

LiveInvoke(t) ==
    /\ CanCall(t)
    /\ \A u \in Callers : ~InInvoke(u)
    /\ Enter(t, "invoke", "isResponse", 0)
    /\ UNCHANGED <<msgs_, rd, sent, pending, nread, ncalls, log, rb_, reads, lifeVars>>

LiveCheck(t) == CheckStep(t) /\ UNCHANGED log

LiveTimeout(t) == TimeoutStep(t) /\ UNCHANGED log

LiveRead(frame) ==
    /\ Len(msgs_) < MaxInbox
    /\ ReadMsg(frame, FreshId)
    /\ UNCHANGED <<pending, nread>>

LiveNext ==
    \/ \E t \in Callers : LiveGetMsg(t)
    \/ \E t \in Callers, p \in Preds : LiveFindMsg(t, p)
    \/ \E t \in Callers : LiveInvoke(t)
    \/ \E t \in Callers : LiveCheck(t)
    \/ \E t \in Callers : LiveTimeout(t)
    \/ \E frame \in LiveFrames : LiveRead(frame)

\* A caller that is about to evaluate its wait predicate does so, and a
\* blocked caller's timeout expires: every wait is bounded.
LiveSpec ==
    /\ Init
    /\ [][LiveNext]_vars
    /\ \A t \in Callers : WF_vars(LiveCheck(t)) /\ WF_vars(LiveTimeout(t))

\* --------------------------------------- invoke's normalisation alone
\* The client right after the response d to the one invoke in progress has
\* been read: the call is about to lock m_ and find it.
InitNormalize ==
    /\ \E d \in NormDocs : msgs_ = <<Msg(1, d, 1)>>
    /\ rd = "reading"
    /\ pc = [t \in Callers |-> IF t = 1 THEN "ready" ELSE "idle"]
    /\ op = [t \in Callers |->
                IF t = 1 THEN [kind |-> "invoke", pred |-> "isResponse", call |-> 1]
                ELSE NoOp]
    /\ ret = [t \in Callers |-> NoRet]
    /\ sent = <<[call |-> 1, jv |-> BuildCommand("ping", Null)]>>
    /\ pending = {}
    /\ nread = 1
    /\ ncalls = 1
    /\ log = {}
    /\ rb_ = <<>>
    /\ reads = 1
    /\ Established

NextNormalize == \E t \in Callers : Check(t)

SpecNormalize == InitNormalize /\ [][NextNormalize]_vars

\* ------------------------------------- the threads, step by step
\* The same client with m_ and the handler's steps spelled out.  A caller
\* is "ready" when it is about to lock m_ (on entry, or notified), "locked"
\* when it holds m_ and is about to evaluate its wait predicate, "waiting"
\* when it is blocked in wait_for with m_ released, "expired" when its
\* timeout has passed and it is about to lock m_ again, and "relocked" when
\* it holds m_ for wait_for's last evaluation of the predicate.
\* Finished calls are not recorded in log here.
\* The handler is "ok" or "ec" once a read has completed and on_read_msg
\* is about to run, "pushed" between the push and the next async_read.

\* std::unique_lock<std::mutex> lock(m_), and wait_for locking m_ again
\* after a notification or the timeout.
lock(t) ==
    /\ pc[t] \in {"ready", "expired"}
    /\ m_ = 0
    /\ m_' = t
    /\ pc' = [pc EXCEPT ![t] = IF pc[t] = "ready" THEN "locked" ELSE "relocked"]
    /\ UNCHANGED <<msgs_, rd, op, ret, sent, pending, nread, ncalls, log,
                   rb_, reads, hnd, ctor, dtor, thread_, work_, stream_>>

\* Mutant: the caller blocks with m_ still locked.
wait_for_KeepLock(t) ==
    /\ m_ = t
    /\ pc[t] \in {"locked", "relocked"}
    /\ IF ClaimPos(op[t], msgs_) # 0
       THEN Take(t) /\ m_' = 0
       ELSE IF pc[t] = "relocked"
       THEN /\ ret' = [ret EXCEPT ![t] = TimedOut(op[t])]
            /\ pc' = [pc EXCEPT ![t] = "done"]
            /\ m_' = 0
            /\ UNCHANGED msgs_
       ELSE /\ pc' = [pc EXCEPT ![t] = "waiting"]
            /\ UNCHANGED <<msgs_, ret, m_>>
    /\ UNCHANGED <<rd, op, sent, pending, nread, ncalls, log,
                   rb_, reads, hnd, ctor, dtor, thread_, work_, stream_>>

\* cv_.wait_for(lock, timeout, pred) with m_ held: the predicate is
\* evaluated; when it is true the message is taken and the block is left,
\* which unlocks m_; when it is false the caller blocks, which unlocks m_,
\* unless the timeout has passed: then wait_for returns false and the
\* call returns nothing.
wait_for(t) ==
    /\ m_ = t
    /\ pc[t] \in {"locked", "relocked"}
    /\ IF ClaimPos(op[t], msgs_) # 0
       THEN Take(t)
       ELSE IF pc[t] = "relocked"
       THEN /\ ret' = [ret EXCEPT ![t] = TimedOut(op[t])]
            /\ pc' = [pc EXCEPT ![t] = "done"]
            /\ UNCHANGED msgs_
       ELSE /\ pc' = [pc EXCEPT ![t] = "waiting"]
            /\ UNCHANGED <<msgs_, ret>>
    /\ m_' = 0
    /\ UNCHANGED <<rd, op, sent, pending, nread, ncalls, log,
                   rb_, reads, hnd, ctor, dtor, thread_, work_, stream_>>

\* The timeout of a blocked caller passes.
expire(t) ==
    /\ pc[t] = "waiting"
    /\ pc' = [pc EXCEPT ![t] = "expired"]
    /\ UNCHANGED <<msgs_, rd, op, ret, sent, pending, nread, ncalls, log,
                   rb_, reads, lifeVars>>

\* The outstanding read completes with a frame: its bytes are in rb_ and
\* on_read_msg is about to run on the background thread.
async_read_done(frame) ==
    /\ nread < MaxFrames
    /\ reads > 0
    /\ hnd = "idle"
    /\ thread_ = "running"
    /\ stream_ \in {"open", "closing"}
    /\ reads' = reads - 1
    /\ rb_' = rb_ \o <<frame>>
    /\ hnd' = "ok"
    /\ nread' = nread + 1
    /\ pending' = pending \ {frame.re}
    /\ UNCHANGED <<msgs_, rd, pc, op, ret, sent, ncalls, log,
                   m_, ctor, dtor, thread_, work_, stream_>>

\* The outstanding read completes with an error: the peer closed or
\* broke the connection, or the socket was closed under the read.
async_read_failed ==
    /\ reads > 0
    /\ hnd = "idle"
    /\ thread_ = "running"
    /\ reads' = reads - 1
    /\ hnd' = "ec"
    /\ UNCHANGED <<msgs_, rd, pc, op, ret, sent, pending, nread, ncalls, log,
                   rb_, m_, ctor, dtor, thread_, work_, stream_>>

\* on_read_msg with an error: if(ec) return.
on_read_msg_return ==
    /\ hnd = "ec"
    /\ hnd' = "idle"
    /\ rd' = "stopped"
    /\ UNCHANGED <<msgs_, pc, op, ret, sent, pending, nread, ncalls, log,
                   rb_, reads, m_, ctor, dtor, thread_, work_, stream_>>

\* on_read_msg without an error, up to the end of the block that locks
\* m_: the buffer is parsed and emptied, and with m_ locked the message is
\* pushed and the waiters are notified.
on_read_msg_push ==
    /\ hnd = "ok"
    /\ m_ = 0
    /\ msgs_' = push_front(msgs_,
           Msg(nread, parse_buffer(buffer_string(rb_)), rb_[Len(rb_)].re))
    /\ rb_' = consume(rb_, Len(rb_))
    /\ pc' = notify_all(pc)
    /\ hnd' = "pushed"
    /\ UNCHANGED <<rd, op, ret, sent, pending, nread, ncalls, log,
                   reads, m_, ctor, dtor, thread_, work_, stream_>>

\* Mutant: the handler returns after the push.
on_read_msg_read_None ==
    /\ hnd = "pushed"
    /\ hnd' = "idle"
    /\ UNCHANGED <<msgs_, rd, pc, op, ret, sent, pending, nread, ncalls, log,
                   rb_, reads, m_, ctor, dtor, thread_, work_, stream_>>

\* The end of on_read_msg: ws_.async_read issues the next read.
on_read_msg_read ==
    /\ hnd = "pushed"
    /\ reads' = reads + 1
    /\ hnd' = "idle"
    /\ UNCHANGED <<msgs_, rd, pc, op, ret, sent, pending, nread, ncalls, log,
                   rb_, m_, ctor, dtor, thread_, work_, stream_>>

\* The callers here use getMsg and findMsg.
NextLock ==
    \/ \E t \in Callers : CallGetMsg(t)
    \/ \E t \in Callers, p \in Preds : CallFindMsg(t, p)
    \/ \E t \in Callers : lock(t)
    \/ \E t \in Callers : wait_for(t)
    \/ \E t \in Callers : expire(t)
    \/ \E frame \in Frames : async_read_done(frame)
    \/ async_read_failed
    \/ on_read_msg_return
    \/ on_read_msg_push
    \/ on_read_msg_read

\* Every thread that can take a step takes it in the end: the mutex is
\* granted, a caller that holds it goes on, the background thread runs its
\* handler, and every wait is bounded by its timeout.
SpecLock ==
    /\ Init
    /\ [][NextLock]_vars
    /\ \A t \in Callers : WF_vars(lock(t)) /\ WF_vars(wait_for(t)) /\ WF_vars(expire(t))
    /\ WF_vars(on_read_msg_push)
    /\ WF_vars(on_read_msg_read)
    /\ WF_vars(on_read_msg_return)

\* ------------------------------------------- construction and teardown
\* The object before its constructor runs.
InitLife ==
    /\ msgs_ = <<>>
    /\ rd = "none"
    /\ pc = [t \in Callers |-> "idle"]
    /\ op = [t \in Callers |-> NoOp]
    /\ ret = [t \in Callers |-> NoRet]
    /\ sent = <<>>
    /\ pending = {}
    /\ nread = 0
    /\ ncalls = 0
    /\ log = {}
    /\ rb_ = <<>>
    /\ reads = 0
    /\ hnd = "idle"
    /\ m_ = 0
    /\ ctor = "none"
    /\ dtor = "none"
    /\ thread_ = "none"
    /\ work_ = FALSE
    /\ stream_ = "none"

\* std::thread::joinable.
joinable(th) == th \in {"running", "exited"}

\* The member initialisers: work_(ios_) and thread_([&]{ ios_.run(); })
\* start the background thread, which work_ keeps inside run().
ctor_members ==
    /\ ctor = "none"
    /\ ctor' = "members"
    /\ work_' = TRUE
    /\ thread_' = "running"
    /\ UNCHANGED <<msgs_, rd, pc, op, ret, sent, pending, nread, ncalls, log,
                   rb_, reads, hnd, m_, dtor, stream_>>

\* The three steps of the constructor's body that can fail, in order:
\* getEndpoint, stream_.connect and ws_.handshake, each returning.
ctor_step ==
    /\ ctor \in {"members", "resolved", "connected"}
    /\ ctor' = CASE ctor = "members" -> "resolved"
                  [] ctor = "resolved" -> "connected"
                  [] ctor = "connected" -> "handshaken"
    /\ stream_' = IF ctor = "resolved" THEN "open" ELSE stream_
    /\ UNCHANGED <<msgs_, rd, pc, op, ret, sent, pending, nread, ncalls, log,
                   rb_, reads, hnd, m_, dtor, thread_, work_>>

\* Mutant: the members are destroyed as if thread_ had been joined.
unwind_Joined(th) == "thrown"

\* An exception leaves the constructor's body: the destructor's body does
\* not run, the members are destroyed in reverse order, and destroying a
\* joinable std::thread calls std::terminate.
unwind(th) == IF joinable(th) THEN "terminated" ELSE "thrown"

\* getEndpoint throws ("Missing WebSocket port"), or stream_.connect or
\* ws_.handshake throws: none is given an error_code.
ctor_throw ==
    /\ ctor \in {"members", "resolved", "connected"}
    /\ ctor' = unwind(thread_)
    /\ UNCHANGED <<msgs_, rd, pc, op, ret, sent, pending, nread, ncalls, log,
                   rb_, reads, hnd, m_, dtor, thread_, work_, stream_>>

\* The end of the constructor: ws_.async_read issues the first read.
ctor_async_read ==
    /\ ctor = "handshaken"
    /\ ctor' = "done"
    /\ reads' = reads + 1
    /\ rd' = "reading"
    /\ UNCHANGED <<msgs_, pc, op, ret, sent, pending, nread, ncalls, log,
                   rb_, hnd, m_, dtor, thread_, work_, stream_>>

\* A read has failed on the open socket: the peer closed or broke the
\* connection.
Broken == dtor = "none" /\ (hnd = "ec" \/ rd = "stopped")

\* ~WSClientImpl, first statement: ws_.close({}) writes the close frame.
\* It is given no error_code: when the write fails, which it can on a
\* broken connection, the exception leaves a destructor and std::terminate
\* is called.
dtor_ws_close ==
    /\ ctor = "done"
    /\ dtor = "none"
    /\ \/ dtor' = "ws_closed" /\ stream_' = "closing"
       \/ Broken /\ dtor' = "terminated" /\ UNCHANGED stream_
    /\ UNCHANGED <<msgs_, rd, pc, op, ret, sent, pending, nread, ncalls, log,
                   rb_, reads, hnd, m_, ctor, thread_, work_>>

\* stream_.close(): the socket is closed; a read outstanding on it will
\* complete with an error.
dtor_stream_close ==
    /\ dtor = "ws_closed"
    /\ dtor' = "closed"
    /\ stream_' = "closed"
    /\ UNCHANGED <<msgs_, rd, pc, op, ret, sent, pending, nread, ncalls, log,
                   rb_, reads, hnd, m_, ctor, thread_, work_>>

\* work_ = boost::none: run() may return once it has nothing left to do.
dtor_work_reset ==
    /\ dtor = "closed"
    /\ dtor' = "released"
    /\ work_' = FALSE
    /\ UNCHANGED <<msgs_, rd, pc, op, ret, sent, pending, nread, ncalls, log,
                   rb_, reads, hnd, m_, ctor, thread_, stream_>>

\* Mutant: join returns at once.
dtor_join_NoWait ==
    /\ dtor = "released"
    /\ dtor' = "done"
    /\ thread_' = IF thread_ = "exited" THEN "joined" ELSE thread_
    /\ UNCHANGED <<msgs_, rd, pc, op, ret, sent, pending, nread, ncalls, log,
                   rb_, reads, hnd, m_, ctor, work_, stream_>>

\* thread_.join() returns when the background thread has left run().
dtor_join ==
    /\ dtor = "released"
    /\ thread_ = "exited"
    /\ dtor' = "done"
    /\ thread_' = "joined"
    /\ UNCHANGED <<msgs_, rd, pc, op, ret, sent, pending, nread, ncalls, log,
                   rb_, reads, hnd, m_, ctor, work_, stream_>>

\* ios_.run() returns: no work_, no operation outstanding and no handler
\* left to run.
run_returns ==
    /\ thread_ = "running"
    /\ ~work_
    /\ reads = 0
    /\ hnd = "idle"
    /\ thread_' = "exited"
    /\ UNCHANGED <<msgs_, rd, pc, op, ret, sent, pending, nread, ncalls, log,
                   rb_, reads, hnd, m_, ctor, dtor, work_, stream_>>

NextLife ==
    \/ ctor_members
    \/ ctor_step
    \/ ctor_throw
    \/ ctor_async_read
    \/ \E frame \in Frames : async_read_done(frame)
    \/ async_read_failed
    \/ on_read_msg_return
    \/ on_read_msg_push
    \/ on_read_msg_read
    \/ dtor_ws_close
    \/ dtor_stream_close
    \/ dtor_work_reset
    \/ dtor_join
    \/ run_returns

\* The destructor's thread and the background thread keep running, and an
\* operation on a closed socket completes.
SpecLife ==
    /\ InitLife
    /\ [][NextLife]_vars
    /\ WF_vars(dtor_stream_close) /\ WF_vars(dtor_work_reset) /\ WF_vars(dtor_join)
    /\ WF_vars(run_returns)
    /\ WF_vars(on_read_msg_return) /\ WF_vars(on_read_msg_push) /\ WF_vars(on_read_msg_read)
    /\ WF_vars(stream_ = "closed" /\ async_read_failed)

\* ------------------------------------------------- steps and history
\* Caller t's call finishes in this step: with a message, or timed out.
Finishes(t) == pc[t] # "done" /\ pc'[t] = "done"

Takes(t) == Finishes(t) /\ ret'[t].id # 0

TimesOut(t) == Finishes(t) /\ ret'[t].id = 0

InboxIds(q) == {q[i].id : i \in 1 .. Len(q)}

Without(q, id) == SelectSeq(q, LAMBDA m : m.id # id)

\* No message of q qualifies for call o.
NoneQualifies(o, q) ==
    IF o.kind = "getMsg" THEN q = <<>>
    ELSE \A i \in 1 .. Len(q) : ~Pred(o.pred, q[i].jv)

\* The invoke calls that timed out.
TimedOutInvokes == {e.call : e \in {x \in log : x.kind = "invoke" /\ x.id = 0}}

\* ------------------------------------------------------------------ C1
Buffered(id) == \E i \in 1 .. Len(msgs_) : msgs_[i].id = id

ReturnedNow(id) == \E t \in Callers : pc[t] = "done" /\ ret[t].id = id

\* A call is issued that would accept the buffered message id: a getMsg,
\* or a findMsg or invoke whose predicate the message satisfies.
IssuesClaimFor(id) ==
    \E t \in Callers :
        /\ ~InCall(t) /\ pc'[t] = "ready"
        /\ \E i \in 1 .. Len(msgs_) :
               /\ msgs_[i].id = id
               /\ op'[t].kind = "getMsg" \/ Pred(op'[t].pred, msgs_[i].jv)

IssuesGetMsg ==
    \E t \in Callers : ~InCall(t) /\ pc'[t] = "ready" /\ op'[t].kind = "getMsg"

\* No step duplicates or loses a message: a buffered message stays in
\* msgs_ or is returned by exactly one call, never both; a call returns a
\* message only out of msgs_, with its document; msgs_ never holds a
\* message twice.
StepKeepsMessages ==
    /\ \A i \in 1 .. Len(msgs_) :
           LET takers == {t \in Callers : Takes(t) /\ ret'[t].id = msgs_[i].id}
               stays == \E j \in 1 .. Len(msgs_') : msgs_'[j] = msgs_[i]
           IN  /\ stays => takers = {}
               /\ ~stays => Cardinality(takers) = 1
    /\ \A t \in Callers :
           Takes(t) =>
               \E i \in 1 .. Len(msgs_) :
                   /\ msgs_[i].id = ret'[t].id
                   /\ op[t].kind # "invoke" => ret'[t].jv = msgs_[i].jv
    /\ Cardinality(InboxIds(msgs_')) = Len(msgs_')

\* C1 (as stated), for the unending run: a buffered message is eventually
\* returned provided calls that would accept it (getMsg, or findMsg and
\* invoke with a predicate it satisfies) keep being issued.
C1_ReturnedIfClaimsKeepComing ==
    \A id \in 1 .. (MaxInbox + Cardinality(Callers)) :
        []<><<IssuesClaimFor(id)>>_vars => (Buffered(id) ~> ReturnedNow(id))

\* C1 (amended): no step duplicates or loses a message, and a buffered
\* message is eventually returned provided getMsg keeps being called.
C1_NoLossAndGetMsgDrains ==
    /\ [][StepKeepsMessages]_vars
    /\ \A id \in 1 .. (MaxInbox + Cardinality(Callers)) :
           []<><<IssuesGetMsg>>_vars => (Buffered(id) ~> ReturnedNow(id))

\* Both callers hold a message, one from findMsg and one from getMsg, and
\* a third message is buffered.
C1_Witness ==
    /\ pc[1] = "done" /\ pc[2] = "done"
    /\ ret[1].id # 0 /\ ret[2].id # 0 /\ ret[1].id # ret[2].id
    /\ {op[1].kind, op[2].kind} = {"findMsg", "getMsg"}
    /\ Len(msgs_) = 1

\* The statement of C1 about states, in the counted run: every frame read
\* so far is in msgs_ exactly once or was returned by exactly one call.
NoDuplicationNoLoss ==
    \A id \in 1 .. nread :
        LET places == {i \in 1 .. Len(msgs_) : msgs_[i].id = id}
            takers == {e \in log : e.id = id}
        IN  Cardinality(places) + Cardinality(takers) = 1

\* ------------------------------------------------------------------ C2
\* C2 (as stated): whenever invoke returns a document taken from a
\* message, that message is the peer's response to this very call's
\* command, never the response to an earlier command.
C2_InvokeReturnsOwnResponse ==
    \A e \in log : (e.kind = "invoke" /\ e.id # 0) => e.re = e.call

\* ------------------------------------------------------------------ C3
\* C3: findMsg (and invoke through it) returns only a message that its
\* predicate accepted when it was removed from msgs_.
C3_FindMsgPredHolds ==
    [][\A t \in Callers :
          (Takes(t) /\ op[t].kind \in {"findMsg", "invoke"}) =>
              \E i \in 1 .. Len(msgs_) :
                  /\ msgs_[i].id = ret'[t].id
                  /\ Pred(op[t].pred, msgs_[i].jv)]_vars

\* findMsg returned a message while a newer message that its predicate
\* rejects is buffered.
C3_Witness ==
    \E t \in Callers :
        /\ pc[t] = "done" /\ op[t].kind = "findMsg" /\ ret[t].id # 0
        /\ \E i \in 1 .. Len(msgs_) :
               msgs_[i].id > ret[t].id /\ ~Pred(op[t].pred, msgs_[i].jv)

\* ------------------------------------------------------------------ C4
\* C4: a successful findMsg or invoke removes exactly the returned message
\* and leaves the others in msgs_ in their order; a frame read meanwhile
\* goes in front of the messages already there and moves none of them.
C4_TakeRemovesExactlyOne ==
    [][/\ \A t \in Callers :
              (Takes(t) /\ op[t].kind \in {"findMsg", "invoke"}) =>
                  /\ ret'[t].id \in InboxIds(msgs_)
                  /\ Len(msgs_') = Len(msgs_) - 1
                  /\ msgs_' = Without(msgs_, ret'[t].id)
       /\ nread' # nread =>
              /\ Len(msgs_') = Len(msgs_) + 1
              /\ SubSeq(msgs_', 2, Len(msgs_')) = msgs_]_vars

\* findMsg or invoke took a message from between two others.
C4_Witness ==
    \E t \in Callers :
        /\ pc[t] = "done" /\ op[t].kind \in {"findMsg", "invoke"} /\ ret[t].id = 2
        /\ Len(msgs_) = 2 /\ msgs_[1].id = 3 /\ msgs_[2].id = 1

\* ------------------------------------------------------------------ C5
\* C5: getMsg and findMsg time out only when no message qualifies (msgs_
\* empty for getMsg, no message the predicate accepts for findMsg); they
\* then return nothing, and neither that step nor the step that blocked the
\* caller changes msgs_.
C5_TimeoutReturnsNothing ==
    [][\A t \in Callers :
          /\ (TimesOut(t) /\ op[t].kind \in {"getMsg", "findMsg"}) =>
                 /\ ret'[t].some = FALSE
                 /\ ret'[t].jv = Null
                 /\ msgs_' = msgs_
                 /\ NoneQualifies(op[t], msgs_)
          /\ (pc[t] = "ready" /\ pc'[t] = "waiting") =>
                 msgs_' = msgs_]_vars

\* findMsg timed out with messages buffered that its predicate rejects.
C5_Witness ==
    \E t \in Callers :
        /\ pc[t] = "done" /\ op[t].kind = "findMsg" /\ ret[t].id = 0
        /\ ~ret[t].some
        /\ Len(msgs_) = 2

\* ------------------------------------------------------------------ C6
\* C6: no two getMsg calls return the same message; and when as many
\* getMsg calls as frames read have all finished (and nothing else was
\* called), the messages returned and the messages still buffered are
\* exactly the frames read, each once, the buffered ones as many as the
\* calls that timed out: with no call timing out every call returned a
\* message and together they returned exactly the messages pushed.
C6_GetMsgOneToOne ==
    LET gets == {e \in log : e.kind = "getMsg"}
        got == {e.id : e \in {x \in log : x.id # 0}}
    IN  /\ \A e1 \in gets, e2 \in gets :
               (e1.id # 0 /\ e1.id = e2.id) => e1.call = e2.call
        /\ ( /\ \A t \in Callers : ~InCall(t)
             /\ gets = log
             /\ Cardinality(log) = ncalls
             /\ ncalls = nread )
           => /\ got \cup InboxIds(msgs_) = 1 .. nread
              /\ got \cap InboxIds(msgs_) = {}
              /\ Cardinality(got) = ncalls - Cardinality({e \in log : e.id = 0})
              /\ Len(msgs_) = Cardinality({e \in log : e.id = 0})

\* Two getMsg calls ran at once (caller 2 calls only while caller 1 is in
\* a call) and each got one of the two messages, crosswise.
C6_Witness ==
    /\ pc[1] = "done" /\ pc[2] = "done"
    /\ op[1].kind = "getMsg" /\ op[2].kind = "getMsg"
    /\ op[1].call = 1 /\ op[2].call = 2
    /\ ret[1].id = 2 /\ ret[2].id = 1
    /\ nread = 2 /\ msgs_ = <<>>

\* ------------------------------------------------------------------ C7
\* C7: an invoke whose findMsg times out returns the default document and
\* changes nothing in msgs_, its command having been written; the response
\* to such a call, when it is read later, is pushed to the front of msgs_,
\* stays there until a call takes it, and while there is what a getMsg (if
\* it is at the back) or an invoke would take.
C7_InvokeTimeoutAndLateResponse ==
    /\ [][/\ \A t \in Callers :
                 (TimesOut(t) /\ op[t].kind = "invoke") =>
                     /\ ret'[t].some /\ ret'[t].jv = Null
                     /\ msgs_' = msgs_
                     /\ \E k \in 1 .. Len(sent) :
                            sent[k].call = op[t].call /\ isMember(sent[k].jv, "command")
          /\ \A c \in TimedOutInvokes :
                 (nread' # nread /\ c \in pending /\ c \notin pending') =>
                     /\ msgs_'[1].re = c
                     /\ Pred("isResponse", msgs_'[1].jv)
                     /\ SubSeq(msgs_', 2, Len(msgs_')) = msgs_
          /\ \A i \in 1 .. Len(msgs_) :
                 msgs_[i].re \in TimedOutInvokes =>
                     \/ msgs_[i].id \in InboxIds(msgs_')
                     \/ \E t \in Callers : Takes(t) /\ ret'[t].id = msgs_[i].id]_vars
    /\ [](\A i \in 1 .. Len(msgs_) :
              msgs_[i].re \in TimedOutInvokes =>
                  /\ ClaimPos([kind |-> "invoke", pred |-> "isResponse", call |-> 0], msgs_) # 0
                  /\ ClaimPos([kind |-> "getMsg", pred |-> "none", call |-> 0], msgs_) # 0)

\* An invoke timed out, its response arrived late and a later call took it.
C7_Witness ==
    \E e1 \in log, e2 \in log :
        /\ e1.kind = "invoke" /\ e1.id = 0
        /\ e2.id # 0 /\ e2.re = e1.call /\ e2.call > e1.call

\* ----------------------------------------------------------------- C10
\* C10: getMsg takes the message at the back of msgs_, which is the oldest
\* message not yet taken, so the messages successive getMsg calls return
\* are in arrival order, whatever findMsg and invoke took in between.
C10_GetMsgOldestFirst ==
    [][\A t \in Callers :
          (Takes(t) /\ op[t].kind = "getMsg") =>
              /\ ret'[t].id = msgs_[Len(msgs_)].id
              /\ \A i \in 1 .. Len(msgs_) : ret'[t].id <= msgs_[i].id
              /\ \A e \in log : (e.kind = "getMsg" /\ e.id # 0) => e.id < ret'[t].id
              /\ msgs_' = SubSeq(msgs_, 1, Len(msgs_) - 1)]_vars

\* Two getMsg calls returned the first and the third message, findMsg
\* having taken the second between them.
C10_Witness ==
    \E e1 \in log, e2 \in log, e3 \in log :
        /\ e1.kind = "getMsg" /\ e1.id = 1 /\ e1.call = 1
        /\ e2.kind = "findMsg" /\ e2.id = 2 /\ e2.call = 2
        /\ e3.kind = "getMsg" /\ e3.id = 3 /\ e3.call = 3

\* ------------------------------------------------------------------ C8
\* The message caller t takes in this step.
TakenMsg(t) == msgs_[CHOOSE i \in 1 .. Len(msgs_) : msgs_[i].id = ret'[t].id]

\* C8: the document invoke returns never has a type member; for a response
\* with status == error it has status == error, a result equal to the
\* response without its type, the response's error member exactly when the
\* response has one, and nothing else.
C8_ErrorRepackaged ==
    [][\A t \in Callers :
          (Takes(t) /\ op[t].kind = "invoke") =>
              LET o == TakenMsg(t).jv
                  r == ret'[t].jv
              IN  /\ ~isMember(r, "type")
                  /\ memberIs(o, "status", "error") =>
                         /\ memberIs(r, "status", "error")
                         /\ isMember(r, "result")
                         /\ DOMAIN r["result"] = DOMAIN o \ {"type"}
                         /\ \A k \in DOMAIN r["result"] : r["result"][k] = o[k]
                         /\ isMember(r, "error") <=> isMember(o, "error")
                         /\ isMember(o, "error") => r["error"] = o["error"]
                         /\ DOMAIN r \subseteq {"status", "result", "error"}]_vars

\* invoke returned a repackaged error response that carries an error member
\* and whose result holds the response's own nested result.
C8_Witness ==
    \E t \in Callers :
        /\ pc[t] = "done" /\ op[t].kind = "invoke" /\ ret[t].id # 0
        /\ memberIs(ret[t].jv, "status", "error")
        /\ memberIs(ret[t].jv, "error", "badCommand")
        /\ isMember(ret[t].jv["result"], "result")

\* ------------------------------------------------------------------ C9
\* C9 (as stated): for a response whose status is not error the returned
\* document has neither a type nor a status member; with a status and a
\* nested result it is exactly {result: {<result's members>, status}}, with
\* a status and no nested result it is the empty document.
C9_StatusDropped ==
    [][\A t \in Callers :
          (Takes(t) /\ op[t].kind = "invoke") =>
              LET o == TakenMsg(t).jv
                  r == ret'[t].jv
              IN  ~memberIs(o, "status", "error") =>
                      /\ ~isMember(r, "type")
                      /\ ~isMember(r, "status")
                      /\ DOMAIN o = {"type", "status", "result"} =>
                             r = [result |-> setMember(o["result"], "status", o["status"])]
                      /\ DOMAIN o = {"type", "status"} => r = Null]_vars

\* C9 (amended): for a response whose status is not error the returned
\* document is the response without its type member, every other member
\* kept, the status too; when it has both a status and a nested result the
\* status is also copied into the nested result.  So the response
\* {type, status: success, result: {foo: 1}} comes back as
\* {status: success, result: {foo: 1, status: success}}, and
\* {type, status: success} as {status: success}.
C9_StatusKeptAndCopied ==
    [][\A t \in Callers :
          (Takes(t) /\ op[t].kind = "invoke") =>
              LET o == TakenMsg(t).jv
                  r == ret'[t].jv
              IN  ~memberIs(o, "status", "error") =>
                      /\ DOMAIN r = DOMAIN o \ {"type"}
                      /\ \A k \in DOMAIN r \ {"result"} : r[k] = o[k]
                      /\ (isMember(o, "result") /\ isMember(o, "status")) =>
                             /\ DOMAIN r["result"] = DOMAIN o["result"] \cup {"status"}
                             /\ r["result"]["status"] = o["status"]
                             /\ \A k \in DOMAIN o["result"] \ {"status"} :
                                    r["result"][k] = o["result"][k]
                      /\ (isMember(o, "result") /\ ~isMember(o, "status")) =>
                             r["result"] = o["result"]
                      /\ o = [type |-> "response", status |-> "success",
                              result |-> [foo |-> "1"]] =>
                             r = [status |-> "success",
                                  result |-> [foo |-> "1", status |-> "success"]]
                      /\ o = [type |-> "response", status |-> "success"] =>
                             r = [status |-> "success"]]_vars

\* invoke returned the success response with its status at the top and in
\* the nested result.
C9_Witness ==
    \E t \in Callers :
        /\ pc[t] = "done" /\ op[t].kind = "invoke"
        /\ ret[t].jv = [status |-> "success",
                        result |-> [foo |-> "1", status |-> "success"]]

\* ----------------------------------------------------------------- C11
\* C11 as stated: when two or more messages are buffered, getMsg returns
\* the most recently arrived one (the front of msgs_).
C11_DrainMostRecentFirst ==
    [][\A t \in Callers :
          (Takes(t) /\ op[t].kind = "getMsg" /\ Len(msgs_) >= 2) =>
              ret'[t].id = msgs_[1].id]_vars

\* C11 amended: when two or more messages are buffered, getMsg returns the
\* one that arrived first and leaves every later arrival buffered, the
\* most recent one still at the front; draining msgs_ with getMsg alone
\* therefore starts with the oldest message and ends with the most recent.
C11_DrainOldestFirst ==
    [][\A t \in Callers :
          (Takes(t) /\ op[t].kind = "getMsg" /\ Len(msgs_) >= 2) =>
              /\ ret'[t].id # msgs_[1].id
              /\ Len(msgs_') = Len(msgs_) - 1
              /\ msgs_'[1] = msgs_[1]
              /\ \A j \in 1 .. Len(msgs_') :
                     /\ msgs_'[j].id > ret'[t].id
                     /\ msgs_'[j] = msgs_[j]]_vars

\* getMsg took the first of three buffered messages; the second and the
\* third are still buffered, the third in front.
C11_Witness ==
    \E t \in Callers :
        /\ pc[t] = "done" /\ op[t].kind = "getMsg" /\ ret[t].id = 1
        /\ Len(msgs_) = 2 /\ msgs_[1].id = 3 /\ msgs_[2].id = 2

\* ----------------------------------------------------------------- C18
\* C18: when several buffered messages satisfy the predicate, findMsg (and
\* invoke through it) returns the one nearest the front of msgs_, which is
\* the most recently arrived of them, and the older ones stay buffered.
C18_FindMsgNewestMatch ==
    [][\A t \in Callers :
          (Takes(t) /\ op[t].kind \in {"findMsg", "invoke"}) =>
              \A i \in 1 .. Len(msgs_) :
                  Pred(op[t].pred, msgs_[i].jv) =>
                      /\ msgs_[i].id <= ret'[t].id
                      /\ \A j \in 1 .. i : Pred(op[t].pred, msgs_[j].jv) =>
                             msgs_[j].id >= msgs_[i].id
                      /\ msgs_[i].id < ret'[t].id =>
                             \E k \in 1 .. Len(msgs_') : msgs_'[k] = msgs_[i]]_vars

\* invoke returned the newer of two buffered responses; the older one is
\* still buffered.
C18_Witness ==
    \E t \in Callers :
        /\ pc[t] = "done" /\ op[t].kind = "invoke" /\ ret[t].id # 0
        /\ \E i \in 1 .. Len(msgs_) :
               /\ msgs_[i].id < ret[t].id
               /\ Pred("isResponse", msgs_[i].jv)

\* ----------------------------------------------------------------- C14
\* C14: the read completion that carries an error pushes no message, wakes
\* no blocked caller and issues no read; from then on no read is
\* outstanding and no message is pushed, so msgs_ only shrinks; a caller
\* that is blocked after the error finishes only by its timeout, with
\* nothing.
C14_ReadErrorStopsLoop ==
    [][/\ (rd = "reading" /\ rd' = "stopped") =>
              /\ msgs_' = msgs_
              /\ nread' = nread
              /\ pc' = pc
              /\ reads' = 0
       /\ rd = "stopped" =>
              /\ rd' = "stopped"
              /\ reads' = 0
              /\ nread' = nread
              /\ InboxIds(msgs_') \subseteq InboxIds(msgs_)
              /\ \A t \in Callers :
                     (pc[t] = "waiting" /\ pc'[t] = "done") =>
                         /\ ret'[t].id = 0
                         /\ ret'[t].jv = Null
                         /\ msgs_' = msgs_]_vars

\* The loop has stopped, a caller is blocked and a call has timed out.
C14_Witness ==
    /\ rd = "stopped"
    /\ \E t \in Callers : pc[t] = "waiting"
    /\ \E e \in log : e.id = 0 /\ e.kind \in {"getMsg", "findMsg"}

\* ----------------------------------------------------------------- C19
\* C19: a caller that is blocked, or on its way to lock m_, does not own
\* m_, so the handler that has a frame to push always gets m_ and pushes
\* in the end; the push wakes every blocked caller; a call returns nothing
\* only when no buffered message qualifies for it at that moment, so a
\* qualifying message pushed while the call was blocked, and taken by no
\* other call, is what it returns; and every call returns.
C19_NoDeadlockNoLostWakeup ==
    /\ [](\A t \in Callers : m_ = t => pc[t] \in {"locked", "relocked"})
    /\ [][/\ (hnd = "ok" /\ hnd' = "pushed") =>
                  \A t \in Callers : pc[t] = "waiting" => pc'[t] = "ready"
          /\ \A t \in Callers :
                  Finishes(t) =>
                      IF NoneQualifies(op[t], msgs_)
                      THEN ret'[t].id = 0
                      ELSE ret'[t].id = msgs_[ClaimPos(op[t], msgs_)].id]_vars
    /\ ((hnd = "ok") ~> (hnd = "pushed"))
    /\ []<>(\A t \in Callers : ~InCall(t))

\* The handler has a frame to push while one caller holds m_ and another
\* call has returned a message.
C19_Witness ==
    \E t \in Callers, u \in Callers :
        /\ pc[t] = "done" /\ ret[t].id # 0
        /\ pc[u] = "locked" /\ m_ = u
        /\ hnd = "ok"

\* ----------------------------------------------------------------- C16
\* C16: for a frame read without error whose bytes are not valid JSON the
\* handler pushes exactly one message, the default document, in front of
\* the messages already buffered, wakes the blocked callers, leaves the
\* read buffer empty and the loop running, and then issues the one next
\* read; every frame, also one read after such a frame, is delivered as
\* what its own bytes parse to.
C16_GarbageFrameKeepsLoop ==
    [][/\ (hnd = "ok" /\ hnd' = "pushed") =>
              LET frame == rb_[Len(rb_)] IN
              /\ msgs_'[1].jv = IF frame.ok THEN frame.doc ELSE Null
              /\ ~frame.ok =>
                     /\ msgs_' = <<Msg(nread, Null, 0)>> \o msgs_
                     /\ \A t \in Callers : pc[t] = "waiting" => pc'[t] = "ready"
                     /\ rb_' = <<>>
                     /\ rd' = "reading"
       /\ (hnd = "pushed" /\ hnd' # "pushed") =>
              /\ hnd' = "idle"
              /\ rd' = "reading"
              /\ reads = 0 /\ reads' = 1]_vars

\* A well-formed frame was delivered after a frame that was not valid
\* JSON; both messages are buffered and the next read is outstanding.
C16_Witness ==
    /\ hnd = "idle" /\ reads = 1 /\ rd = "reading"
    /\ \E i \in 1 .. Len(msgs_), j \in 1 .. Len(msgs_) :
           /\ i < j
           /\ msgs_[j].jv = Null
           /\ msgs_[i].jv \in NotifyDocs \cup ResponseDocs

\* ----------------------------------------------------------------- C12
\* C12: from every state of the established client the destructor goes
\* through its steps in order (close, release of work_, join), returns in
\* the end, and has returned only with the background thread joined.
C12_TeardownTerminates ==
    /\ [][dtor' # dtor =>
              <<dtor, dtor'>> \in {<<"none", "ws_closed">>, <<"ws_closed", "closed">>,
                                   <<"closed", "released">>, <<"released", "done">>}]_vars
    /\ [](dtor = "done" => thread_ = "joined")
    /\ ((dtor # "none") ~> (dtor = "done"))

\* ----------------------------------------------------------------- C13
\* C13: once the destructor has taken its first step, no message is pushed
\* to msgs_ and no read is issued.
C13_NoPushAfterDestruction ==
    [][dtor # "none" => (msgs_' = msgs_ /\ reads' <= reads)]_vars

\* ----------------------------------------------------------------- C17
\* C17: never more than one read is outstanding; none before the
\* constructor has issued the first; on the established client, until the
\* first read error or the destructor, exactly one read is outstanding or
\* has completed and is being handled by on_read_msg; a read is issued only
\* by the constructor's last step or by the handler of a read that
\* completed without error, after that handler has pushed its message.
C17_OneReadOutstanding ==
    /\ [](reads <= 1)
    /\ [](ctor # "done" => reads = 0)
    /\ []((ctor = "done" /\ dtor = "none" /\ rd = "reading") =>
              /\ hnd = "idle" => reads = 1
              /\ hnd # "idle" => reads = 0)
    /\ [][reads' > reads =>
              /\ reads' = reads + 1
              /\ \/ ctor = "handshaken" /\ ctor' = "done"
                 \/ /\ hnd = "pushed"
                    /\ msgs_ # <<>>
                    /\ msgs_[1].id = nread]_vars

\* The third read is outstanding: two frames have been handled and their
\* messages pushed.
C17_Witness ==
    /\ ctor = "done" /\ dtor = "none" /\ rd = "reading"
    /\ hnd = "idle" /\ reads = 1
    /\ nread = 2 /\ Len(msgs_) = 2

\* ----------------------------------------------------------------- C20
\* C20: when getEndpoint, connect or the handshake fails, the exception
\* reaches the caller with no read issued and with the background thread
\* stopped and joined.
C20_ConstructionFailureClean ==
    /\ ctor # "terminated"
    /\ ctor = "thrown" => (reads = 0 /\ ~work_ /\ thread_ = "joined")

\* ----------------------------------------------------------------- C15
\* C15: once the read loop has stopped on an error, no public operation
\* raises, and a call for which no buffered message qualifies returns
\* nothing (the default document from invoke).
C15_DegradesToTimeout ==
    [][rd = "stopped" =>
          \A t \in Callers :
              /\ pc'[t] # "thrown"
              /\ (Finishes(t) /\ NoneQualifies(op[t], msgs_)) =>
                     (ret'[t].id = 0 /\ ret'[t].jv = Null)]_vars

=============================================================================
